---- MODULE Spec2Model ----
\* A model of infinigen/core/init.py: seed resolution (parse_seed,
\* apply_scene_seed), override sanitization (sanitize_override), gin config
\* resolution (apply_gin_configs) and Cycles device selection
\* (configure_cycles_devices).
\*
\* Strings are sequences of one-character strings, so that splitting, digit
\* parsing and hashing are computed and not assumed.  File names are sequences
\* of dot-separated parts (<<"base", "gin">> is base.gin), directories are
\* sequences of path components.
EXTENDS Integers, Sequences, FiniteSets, TLC

VARIABLES
    \* ---- apply_scene_seed
    seed,           \* the seed argument: an optional string
    task,           \* the task argument: an optional collection of tasks
    s_pc,           \* position inside apply_scene_seed
    scene_seed,     \* local scene_seed (line 75)
    reason,         \* local reason (line 75)
    s_err,          \* exception that left apply_scene_seed, "" when none
    gin_constants,  \* calls of gin.constant, in order, as <<name, value>>
    random_seeds,   \* calls of random.seed, in order
    np_seeds,       \* successful calls of np.random.seed, in order
    s_ret,          \* value returned by apply_scene_seed
    \* ---- sanitize_override
    o_in,           \* the override argument
    o_pc,           \* position of the sanitize_override call
    o_out,          \* its outcome
    \* ---- apply_gin_configs
    fs,             \* the file system: a set of files [dir, name]
    g_args,         \* the arguments of apply_gin_configs
    g_pc,           \* position inside apply_gin_configs
    g_i,            \* index of the loop the position is in
    configs_folder, \* local configs_folder after lines 152-163
    search_paths,   \* local search_paths (line 165)
    gin_search_paths, \* calls of gin.add_config_file_search_path
    g_configs,      \* local configs after line 175: the resolved files
    g_overrides,    \* local overrides after line 176
    g_log,          \* the steps of apply_gin_configs that completed without error, in order
    g_err,          \* exception that left apply_gin_configs, "" when none
    g_err_info,     \* what the exception's message names
    merge_calls,    \* calls of gin.parse_config_files_and_bindings, in order
    \* ---- configure_cycles_devices
    use_gpu,        \* the use_gpu argument
    engine,         \* bpy.context.scene.render.engine
    hw,             \* the device types cycles finds when a backend is queried
    devices,        \* prefs.devices: sequence of [type, use]
    devices0,       \* prefs.devices as they were when the call began
    cycles_device,  \* bpy.context.scene.cycles.device
    compute_device_type,  \* prefs.compute_device_type
    compute_device_type0, \* its value when the call began
    enumerated,     \* number of get_devices_for_type calls
    d_pc,           \* position inside configure_cycles_devices
    d_types,        \* local types after line 263
    d_err,          \* exception that left configure_cycles_devices
    d_ret           \* value returned: [some, val]

seedVars == <<seed, task, s_pc, scene_seed, reason, s_err, gin_constants,
              random_seeds, np_seeds, s_ret>>
sanVars == <<o_in, o_pc, o_out>>
ginVars == <<fs, g_args, g_pc, g_i, configs_folder, search_paths,
             gin_search_paths, g_configs, g_overrides, g_log, g_err,
             g_err_info, merge_calls>>
devVars == <<use_gpu, engine, hw, devices, devices0, cycles_device,
             compute_device_type, compute_device_type0, enumerated, d_pc,
             d_types, d_err, d_ret>>
vars == <<seedVars, sanVars, ginVars, devVars>>

\* ------------------------------------------------------------------
\* Generic helpers
\* ------------------------------------------------------------------

\* All strings over alphabet of length at most n.
StringsUpTo(alphabet, n) == UNION {[1..k -> alphabet] : k \in 0..n}

\* Python's  c in s  for a character c.
Contains(s, c) == \E i \in 1..Len(s) : s[i] = c

Range(s) == {s[i] : i \in 1..Len(s)}

\* Python's optional values.
Some(v) == [some |-> TRUE, val |-> v]
NoneStr == [some |-> FALSE, val |-> <<>>]
NoneSet == [some |-> FALSE, val |-> {}]

\* ------------------------------------------------------------------
\* Seed resolution
\* ------------------------------------------------------------------

\* Bound: longest seed token enumerated exhaustively.
MaxSeedLen == 3

\* Characters of the enumerated seed tokens: a character that is a decimal
\* and a hexadecimal digit, one that is hexadecimal only, one that is no
\* digit, and the sign.
SeedChars == {"1", "f", "g", "-"}

\* Tokens wider than 32 bits, beside the exhaustive short ones.
LongSeedTokens ==
    { <<"f","f","f","f","f","f","f","f">>,
      <<"1","f","f","f","f","f","f","f","f">> }

SeedTokens == StringsUpTo(SeedChars, MaxSeedLen) \cup LongSeedTokens

\* The members of Task (infinigen.core.util.organization).
Tasks == {"coarse", "populate", "render"}

\* Values numpy.random.randint(1e7) may draw: the ends and the middle of [0, 1e7).
RandintHigh == 10000000
RandintSamples == {0, 1234567, RandintHigh - 1}

HexDigits == {"0","1","2","3","4","5","6","7","8","9","a","b","c","d","e","f"}
DecDigits == {"0","1","2","3","4","5","6","7","8","9"}

DigitValue(c) ==
    CASE c = "0" -> 0 [] c = "1" -> 1 [] c = "2" -> 2 [] c = "3" -> 3
      [] c = "4" -> 4 [] c = "5" -> 5 [] c = "6" -> 6 [] c = "7" -> 7
      [] c = "8" -> 8 [] c = "9" -> 9 [] c = "a" -> 10 [] c = "b" -> 11
      [] c = "c" -> 12 [] c = "d" -> 13 [] c = "e" -> 14 [] c = "f" -> 15

\* Python integers are unbounded.  An integer is [neg, mag]: its sign and its
\* magnitude as base-16 digits, most significant first, without leading
\* zeros; zero is [neg |-> FALSE, mag |-> <<>>].
RECURSIVE StripZeros(_)
StripZeros(ds) ==
    IF ds # <<>> /\ ds[1] = 0 THEN StripZeros(Tail(ds)) ELSE ds

MkInt(neg, ds) ==
    LET m == StripZeros(ds) IN [neg |-> neg /\ m # <<>>, mag |-> m]

Zero == MkInt(FALSE, <<>>)

\* The integer of a natural number small enough to be computed directly.
RECURSIVE NatDigits(_)
NatDigits(n) == IF n = 0 THEN <<>> ELSE NatDigits(n \div 16) \o <<n % 16>>

NatToInt(n) == MkInt(FALSE, NatDigits(n))

\* The unsigned digits of s read in base 10, most significant first.
RECURSIVE DecimalValue(_)
DecimalValue(s) ==
    IF s = <<>> THEN 0
    ELSE DecimalValue(SubSeq(s, 1, Len(s) - 1)) * 10 + DigitValue(s[Len(s)])

\* Python's int(s, 16) on the characters of the model: an optional sign
\* followed by at least one base-16 digit; anything else raises ValueError.
IntBase16(s) ==
    LET neg  == s # <<>> /\ s[1] = "-"
        body == IF neg THEN Tail(s) ELSE s
    IN  IF body # <<>> /\ Range(body) \subseteq HexDigits
        THEN [raised |-> FALSE,
              value  |-> MkInt(neg, [i \in 1..Len(body) |-> DigitValue(body[i])])]
        ELSE [raised |-> TRUE, value |-> Zero]

\* Python's int(s, 10), likewise.
IntBase10(s) ==
    LET neg  == s # <<>> /\ s[1] = "-"
        body == IF neg THEN Tail(s) ELSE s
    IN  IF body # <<>> /\ Range(body) \subseteq DecDigits
        THEN [raised |-> FALSE, value |-> MkInt(neg, NatDigits(DecimalValue(body)))]
        ELSE [raised |-> TRUE, value |-> Zero]

\* ord() of the characters the model uses.
CharCode(c) ==
    CASE c = "-" -> 45 [] c = "1" -> 49 [] c = "f" -> 102 [] c = "g" -> 103
      [] OTHER -> 63

\* infinigen.core.util.math.int_hash: a fixed function of the string's bytes
\* whose result lies in [0, 2^32 - 1).  The fold here stays below 2^16.
RECURSIVE HashFold(_)
HashFold(s) ==
    IF s = <<>> THEN 7
    ELSE (HashFold(SubSeq(s, 1, Len(s) - 1)) * 31 + CharCode(s[Len(s)])) % 65521

int_hash(s) == NatToInt(HashFold(s))

\* A variant of parse_seed that tries a decimal reading before the base-16 one.
parse_seed_decimal_first(sd, tk, r) ==
    IF ~sd.some
    THEN IF tk.some /\ "coarse" \notin tk.val
         THEN [raised |-> TRUE, value |-> Zero, reason |-> ""]
         ELSE [raised |-> FALSE, value |-> NatToInt(r), reason |-> "chosen at random"]
    ELSE LET d == IntBase10(sd.val)
             h == IntBase16(sd.val)
         IN  IF ~d.raised
             THEN [raised |-> FALSE, value |-> d.value, reason |-> "parsed as hexadecimal"]
             ELSE IF ~h.raised
             THEN [raised |-> FALSE, value |-> h.value, reason |-> "parsed as hexadecimal"]
             ELSE [raised |-> FALSE, value |-> int_hash(sd.val),
                   reason |-> "hashed string to integer"]

\* A variant of parse_seed that draws a random seed whenever none is given.
parse_seed_no_check(sd, tk, r) ==
    IF ~sd.some
    THEN [raised |-> FALSE, value |-> NatToInt(r), reason |-> "chosen at random"]
    ELSE LET h == IntBase16(sd.val)
         IN  IF ~h.raised
             THEN [raised |-> FALSE, value |-> h.value, reason |-> "parsed as hexadecimal"]
             ELSE [raised |-> FALSE, value |-> int_hash(sd.val),
                   reason |-> "hashed string to integer"]

\* parse_seed(seed, task); r is the number randint(1e7) draws.
parse_seed(sd, tk, r) ==
    IF ~sd.some
    THEN IF tk.some /\ "coarse" \notin tk.val
         THEN [raised |-> TRUE, value |-> Zero, reason |-> ""]
         ELSE [raised |-> FALSE, value |-> NatToInt(r), reason |-> "chosen at random"]
    ELSE LET h == IntBase16(sd.val)
         IN  IF ~h.raised
             THEN [raised |-> FALSE, value |-> h.value, reason |-> "parsed as hexadecimal"]
             ELSE [raised |-> FALSE, value |-> int_hash(sd.val),
                   reason |-> "hashed string to integer"]

\* numpy.random.seed accepts an integer in [0, 2^32 - 1], one of at most
\* eight base-16 digits, and raises ValueError for any other.
NpSeedAccepts(v) == ~v.neg /\ Len(v.mag) <= 8

SeedIdle ==
    /\ seed = NoneStr /\ task = NoneSet /\ s_pc = "idle" /\ scene_seed = Zero
    /\ reason = "" /\ s_err = "" /\ gin_constants = <<>> /\ random_seeds = <<>>
    /\ np_seeds = <<>> /\ s_ret = Zero

SeedInit ==
    /\ seed \in {NoneStr} \cup {Some(s) : s \in SeedTokens}
    /\ task \in {NoneSet} \cup {Some(t) : t \in SUBSET Tasks}
    /\ s_pc = "start" /\ scene_seed = Zero /\ reason = "" /\ s_err = ""
    /\ gin_constants = <<>> /\ random_seeds = <<>> /\ np_seeds = <<>>
    /\ s_ret = Zero

\* line 75: scene_seed, reason = parse_seed(seed, task)
ParseSeed ==
    /\ s_pc = "start"
    /\ \E r \in RandintSamples :
         LET p == parse_seed(seed, task, r)
         IN  IF p.raised
             THEN /\ s_pc' = "raised" /\ s_err' = "ValueError"
                  /\ UNCHANGED <<scene_seed, reason>>
             ELSE /\ s_pc' = "parsed" /\ scene_seed' = p.value
                  /\ reason' = p.reason /\ UNCHANGED s_err
    /\ UNCHANGED <<seed, task, gin_constants, random_seeds, np_seeds, s_ret>>
    /\ UNCHANGED <<sanVars, ginVars, devVars>>

\* line 77: gin.constant('OVERALL_SEED', scene_seed)
GinConstant ==
    /\ s_pc = "parsed"
    /\ gin_constants' = Append(gin_constants, <<"OVERALL_SEED", scene_seed>>)
    /\ s_pc' = "published"
    /\ UNCHANGED <<seed, task, scene_seed, reason, s_err, random_seeds, np_seeds, s_ret>>
    /\ UNCHANGED <<sanVars, ginVars, devVars>>

\* line 78: random.seed(scene_seed)
RandomSeed ==
    /\ s_pc = "published"
    /\ random_seeds' = Append(random_seeds, scene_seed)
    /\ s_pc' = "py_seeded"
    /\ UNCHANGED <<seed, task, scene_seed, reason, s_err, gin_constants, np_seeds, s_ret>>
    /\ UNCHANGED <<sanVars, ginVars, devVars>>

\* line 79: np.random.seed(scene_seed)
NpRandomSeed ==
    /\ s_pc = "py_seeded"
    /\ IF NpSeedAccepts(scene_seed)
       THEN /\ np_seeds' = Append(np_seeds, scene_seed)
            /\ s_pc' = "np_seeded" /\ UNCHANGED s_err
       ELSE /\ s_pc' = "raised" /\ s_err' = "ValueError"
            /\ UNCHANGED np_seeds
    /\ UNCHANGED <<seed, task, scene_seed, reason, gin_constants, random_seeds, s_ret>>
    /\ UNCHANGED <<sanVars, ginVars, devVars>>

\* line 80: return scene_seed
ReturnSeed ==
    /\ s_pc = "np_seeded"
    /\ s_ret' = scene_seed
    /\ s_pc' = "done"
    /\ UNCHANGED <<seed, task, scene_seed, reason, s_err, gin_constants,
                   random_seeds, np_seeds>>
    /\ UNCHANGED <<sanVars, ginVars, devVars>>

SeedNext == ParseSeed \/ GinConstant \/ RandomSeed \/ NpRandomSeed \/ ReturnSeed

\* ------------------------------------------------------------------
\* Override sanitization
\* ------------------------------------------------------------------

\* Bound: longest override string enumerated.
MaxOverrideLen == 5

\* Characters of the enumerated overrides: a letter, a digit, the separator,
\* the reference marker and the four characters that switch sanitization off.
OverrideChars == {"a", "5", "=", "@", "\"", "'", "[", "]"}

\* The characters of line 86.
QuoteChars == {"\"", "'", "[", "]"}

\* Python's s.split(sep) for a one-character sep: the pieces between the
\* occurrences of sep, one more than there are occurrences.
RECURSIVE Split(_, _)
Split(s, sep) ==
    IF ~Contains(s, sep) THEN <<s>>
    ELSE LET i == CHOOSE j \in 1..Len(s) :
                      s[j] = sep /\ \A m \in 1..(j - 1) : s[m] # sep
         IN  <<SubSeq(s, 1, i - 1)>> \o Split(SubSeq(s, i + 1, Len(s)), sep)

\* Whether ast.literal_eval(v) returns, for v over the letters, digits and '@'
\* that can reach it: an integer literal does (a nonzero one must not start
\* with 0); a name, a malformed expression or the empty string raises
\* ValueError or SyntaxError.
LiteralEvalOk(v) ==
    /\ v # <<>>
    /\ Range(v) \subseteq DecDigits
    /\ (Len(v) = 1 \/ v[1] # "0" \/ Range(v) = {"0"})

\* A variant of sanitize_override that quotes references too.
sanitize_override_quote_refs(override) ==
    IF Contains(override, "=") /\ ~(\E c \in QuoteChars : Contains(override, c))
    THEN LET parts == Split(override, "=")
         IN  IF Len(parts) # 2
             THEN [raised |-> TRUE, val |-> <<>>]
             ELSE IF ~LiteralEvalOk(parts[2])
                  THEN [raised |-> FALSE,
                        val |-> parts[1] \o <<"=", "\"">> \o parts[2] \o <<"\"">>]
                  ELSE [raised |-> FALSE, val |-> override]
    ELSE [raised |-> FALSE, val |-> override]

\* sanitize_override(override): line 88 unpacks the split into exactly two
\* names, which raises ValueError for any other number of pieces.
sanitize_override(override) ==
    IF Contains(override, "=") /\ ~(\E c \in QuoteChars : Contains(override, c))
    THEN LET parts == Split(override, "=")
         IN  IF Len(parts) # 2
             THEN [raised |-> TRUE, val |-> <<>>]
             ELSE IF ~LiteralEvalOk(parts[2]) /\ ~Contains(parts[2], "@")
                  THEN [raised |-> FALSE,
                        val |-> parts[1] \o <<"=", "\"">> \o parts[2] \o <<"\"">>]
                  ELSE [raised |-> FALSE, val |-> override]
    ELSE [raised |-> FALSE, val |-> override]

SanIdle == o_in = <<>> /\ o_pc = "idle" /\ o_out = [raised |-> FALSE, val |-> <<>>]

SanInit ==
    /\ o_in \in StringsUpTo(OverrideChars, MaxOverrideLen)
    /\ o_pc = "start"
    /\ o_out = [raised |-> FALSE, val |-> <<>>]

\* One call of sanitize_override.
SanitizeOverride ==
    /\ o_pc = "start"
    /\ o_out' = sanitize_override(o_in)
    /\ o_pc' = IF sanitize_override(o_in).raised THEN "raised" ELSE "returned"
    /\ UNCHANGED o_in
    /\ UNCHANGED <<seedVars, ginVars, devVars>>

SanNext == SanitizeOverride

\* ------------------------------------------------------------------
\* Config resolution
\* ------------------------------------------------------------------

\* Bound: most config names a call requests.
MaxConfigs == 2

\* A path is [abs, parts]; a relative one is taken from the working directory.
AbsPath(parts) == [abs |-> TRUE, parts |-> parts]
RelPath(parts) == [abs |-> FALSE, parts |-> parts]

\* The working directory of the process.
CwdParts == <<"work">>

\* pathlib's  a / b
Join(a, b) == IF b.abs THEN b ELSE [abs |-> a.abs, parts |-> a.parts \o b.parts]

Resolve(p) == IF p.abs THEN p.parts ELSE CwdParts \o p.parts

IsPrefix(d, e) == Len(d) <= Len(e) /\ SubSeq(e, 1, Len(d)) = d

Prefixes(d) == {SubSeq(d, 1, k) : k \in 0..Len(d)}

\* repo_root(): three levels above the source file.
repo_root == AbsPath(<<"repo">>)

\* Path('.')
Dot == RelPath(<<>>)

\* The directories there are: those above a file, the repository root (the
\* source file lies below it) and the working directory.
Directories ==
    UNION {Prefixes(f.dir) : f \in fs} \cup Prefixes(repo_root.parts)
        \cup Prefixes(CwdParts)

\* Path.exists() of a folder.
Exists(p) == Resolve(p) \in Directories

\* Path.stem of a file name: the name without its last suffix.
Stem(name) == IF Len(name) > 1 THEN SubSeq(name, 1, Len(name) - 1) ELSE name

\* folder.glob('**/*.gin'): the files below folder whose name ends in .gin.
Glob(p) ==
    {f \in fs : /\ IsPrefix(Resolve(p), f.dir)
                /\ Len(f.name) >= 2 /\ f.name[Len(f.name)] = "gin"}

\* folder.iterdir(): the names of the files and of the folders directly inside.
IterDir(p) ==
    LET d == Resolve(p)
    IN  {f.name : f \in {g \in fs : g.dir = d}}
        \cup {<<f.dir[Len(d) + 1]>> :
                f \in {g \in fs : IsPrefix(d, g.dir) /\ Len(g.dir) > Len(d)}}

File(dir, name) == [dir |-> dir, name |-> name]

\* The files a run may find on disk.
FileUniverse ==
    { File(<<"repo", "configs">>, <<"base", "gin">>),
      File(<<"repo", "configs", "scene_types">>, <<"desert", "gin">>),
      File(<<"repo", "configs", "scene_types">>, <<"forest", "gin">>),
      File(<<"repo", "extra">>, <<"desert", "gin">>),
      File(<<"work">>, <<"local", "gin">>),
      File(<<"work", "configs">>, <<"base", "gin">>) }

\* The config names a call may request, with and without the extension.
ConfigNames == {<<"desert", "gin">>, <<"forest">>, <<"local", "gin">>}

\* The name line 175 puts first.
BaseName == <<"base", "gin">>

\* The override lists a call may pass.
OverrideLists ==
    { <<>>,
      << <<"a", "=", "5">>, <<"a", "=", "a">>, <<"a", "=", "@", "a">> >>,
      << <<"a", "=", "a", "=", "a">> >> }

SceneTypes == RelPath(<<"configs", "scene_types">>)
Configs == RelPath(<<"configs">>)

\* The folder lists a call may pass as mandatory or mutually exclusive.
FolderLists == {<<>>, <<SceneTypes>>, <<Configs, SceneTypes>>}

NoInfo == [what |-> "", paths |-> <<>>, stems |-> {}]

\* find_config(p) when the roots are searched in any order.
find_config_any_root(p, paths) ==
    UNION {{f \in Glob(paths[k]) : Stem(f.name) = Stem(p)} : k \in 1..Len(paths)}

\* find_config(p), lines 167-173: the files it may return, none when it
\* raises.  The roots are scanned in order; the order of one root's glob is
\* the file system's, so any match of the first root that has one may be first.
find_config(p, paths) ==
    LET hits(k) == {f \in Glob(paths[k]) : Stem(f.name) = Stem(p)}
        found   == {k \in 1..Len(paths) : hits(k) # {}}
    IN  IF found = {} THEN {}
        ELSE hits(CHOOSE k \in found : \A m \in found : k <= m)

\* resolve_folder_maybe_relative(folder, root)
resolve_folder_maybe_relative(folder, root) ==
    IF Exists(folder) THEN [raised |-> FALSE, path |-> folder]
    ELSE IF Exists(Join(root, folder))
         THEN [raised |-> FALSE, path |-> Join(root, folder)]
         ELSE [raised |-> TRUE, path |-> folder]

\* contained_stems(filenames, folder): a set comprehension, so the result is
\* the set of the truth values met, one per distinct outcome.
contained_stems(filenames, folder) ==
    LET names == {Stem(n) : n \in IterDir(folder)}
    IN  {(Stem(s.name) \in names \/ s.name \in names) : s \in Range(filenames)}

\* Python's truth value of a set: false exactly for the empty set.
Truthy(set) == set # {}

\* Lines 187-189 with the folder's file names taken in place of their stems.
MutexBoth_names(mutex_folder, configs) ==
    LET stems        == IterDir(mutex_folder)
        config_stems == {Stem(s.name) : s \in Range(configs)}
    IN  stems \cap config_stems

\* Lines 187-189: the stems inside the folder that are stems of the configs.
MutexBoth(mutex_folder, configs) ==
    LET stems        == {Stem(n) : n \in IterDir(mutex_folder)}
        config_stems == {Stem(s.name) : s \in Range(configs)}
    IN  stems \cap config_stems

\* The position after the step at position pc, index i, has completed.
After(pc, i) ==
    LET nNames == 1 + Len(g_args.configs)
        nMand  == Len(g_args.mandatory_folders)
        nMutex == Len(g_args.mutually_exclusive_folders)
        fromMutex(j) == IF j <= nMutex THEN <<"mutex", j>> ELSE <<"merge", 1>>
        fromMand(j)  == IF j <= nMand THEN <<"mandatory", j>> ELSE fromMutex(1)
    IN  CASE pc = "find"      -> IF i < nNames THEN <<"find", i + 1>> ELSE <<"sanitize", 1>>
          [] pc = "sanitize"  -> fromMand(1)
          [] pc = "mandatory" -> fromMand(i + 1)
          [] pc = "mutex"     -> fromMutex(i + 1)

GinIdle ==
    /\ fs = {} /\ g_pc = "idle" /\ g_i = 0
    /\ g_args = [configs_folder |-> Configs, configs |-> <<>>, overrides |-> <<>>,
                 skip_unknown |-> FALSE, mandatory_folders |-> <<>>,
                 mutually_exclusive_folders |-> <<>>]
    /\ configs_folder = Configs /\ search_paths = <<>> /\ gin_search_paths = <<>>
    /\ g_configs = <<>> /\ g_overrides = <<>> /\ g_log = <<>> /\ g_err = ""
    /\ g_err_info = NoInfo /\ merge_calls = <<>>

GinInit ==
    /\ fs \in SUBSET FileUniverse
    /\ g_args \in [configs_folder : {Configs},
                   configs : StringsUpTo(ConfigNames, MaxConfigs),
                   overrides : OverrideLists,
                   skip_unknown : BOOLEAN,
                   mandatory_folders : FolderLists,
                   mutually_exclusive_folders : FolderLists]
    /\ g_pc = "start" /\ g_i = 0
    /\ configs_folder = g_args.configs_folder
    /\ search_paths = <<>> /\ gin_search_paths = <<>>
    /\ g_configs = <<>> /\ g_overrides = <<>> /\ g_log = <<>> /\ g_err = ""
    /\ g_err_info = NoInfo /\ merge_calls = <<>>

GinRaise(kind, info) ==
    /\ g_pc' = "raised" /\ g_err' = kind /\ g_err_info' = info
    /\ UNCHANGED <<g_i, g_log>>

GinAdvance(step) ==
    /\ g_pc' = After(g_pc, g_i)[1] /\ g_i' = After(g_pc, g_i)[2]
    /\ g_log' = Append(g_log, step)
    /\ UNCHANGED <<g_err, g_err_info>>

\* lines 152-165: the configs folder, root-relative first, and the search roots
ResolveConfigsFolder ==
    /\ g_pc = "start"
    /\ LET given == g_args.configs_folder
           rel   == Join(repo_root, given)
       IN  IF Exists(rel) \/ Exists(given)
           THEN LET chosen == IF Exists(rel) THEN rel ELSE given
                IN  /\ configs_folder' = chosen
                    /\ gin_search_paths' = Append(gin_search_paths, chosen)
                    /\ search_paths' = <<chosen, repo_root, Dot>>
                    /\ g_pc' = "find" /\ g_i' = 1
                    /\ g_log' = Append(g_log, <<"folder", 1>>)
                    /\ UNCHANGED <<g_err, g_err_info>>
           ELSE /\ GinRaise("FileNotFoundError",
                            [what |-> "configs_folder", paths |-> <<given, rel>>,
                             stems |-> {}])
                /\ UNCHANGED <<configs_folder, gin_search_paths, search_paths>>
    /\ UNCHANGED <<fs, g_args, g_configs, g_overrides, merge_calls>>
    /\ UNCHANGED <<seedVars, sanVars, devVars>>

\* line 175, one element of the comprehension: find_config(g)
FindConfig ==
    /\ g_pc = "find"
    /\ LET p == (<<BaseName>> \o g_args.configs)[g_i]
       IN  IF find_config(p, search_paths) = {}
           THEN /\ GinRaise("FileNotFoundError",
                            [what |-> "config", paths |-> search_paths,
                             stems |-> {Stem(p)}])
                /\ UNCHANGED g_configs
           ELSE \E file \in find_config(p, search_paths) :
                  /\ g_configs' = Append(g_configs, file)
                  /\ GinAdvance(<<"find", g_i>>)
    /\ UNCHANGED <<fs, g_args, configs_folder, search_paths, gin_search_paths,
                   g_overrides, merge_calls>>
    /\ UNCHANGED <<seedVars, sanVars, devVars>>

\* line 176: overrides = [sanitize_override(o) for o in overrides]
SanitizeOverrides ==
    /\ g_pc = "sanitize"
    /\ LET res == [i \in 1..Len(g_args.overrides) |->
                      sanitize_override(g_args.overrides[i])]
       IN  IF \E i \in 1..Len(res) : res[i].raised
           THEN /\ GinRaise("ValueError",
                            [what |-> "override", paths |-> <<>>, stems |-> {}])
                /\ UNCHANGED g_overrides
           ELSE /\ g_overrides' = [i \in 1..Len(res) |-> res[i].val]
                /\ GinAdvance(<<"sanitize", 1>>)
    /\ UNCHANGED <<fs, g_args, configs_folder, search_paths, gin_search_paths,
                   g_configs, merge_calls>>
    /\ UNCHANGED <<seedVars, sanVars, devVars>>

\* lines 178-183, one iteration
CheckMandatory ==
    /\ g_pc = "mandatory"
    /\ LET r == resolve_folder_maybe_relative(g_args.mandatory_folders[g_i], repo_root)
       IN  IF r.raised
           THEN GinRaise("FileNotFoundError",
                         [what |-> "folder",
                          paths |-> <<r.path, Join(repo_root, r.path)>>, stems |-> {}])
           ELSE IF ~Truthy(contained_stems(g_configs, r.path))
           THEN GinRaise("FileNotFoundError",
                         [what |-> "mandatory", paths |-> <<r.path>>, stems |-> {}])
           ELSE GinAdvance(<<"mandatory", g_i>>)
    /\ UNCHANGED <<fs, g_args, configs_folder, search_paths, gin_search_paths,
                   g_configs, g_overrides, merge_calls>>
    /\ UNCHANGED <<seedVars, sanVars, devVars>>

\* lines 185-193, one iteration
CheckMutex ==
    /\ g_pc = "mutex"
    /\ LET r == resolve_folder_maybe_relative(g_args.mutually_exclusive_folders[g_i],
                                              repo_root)
       IN  IF r.raised
           THEN GinRaise("FileNotFoundError",
                         [what |-> "folder",
                          paths |-> <<r.path, Join(repo_root, r.path)>>, stems |-> {}])
           ELSE IF Cardinality(MutexBoth(r.path, g_configs)) > 1
           THEN GinRaise("ValueError",
                         [what |-> "mutex", paths |-> <<r.path>>,
                          stems |-> MutexBoth(r.path, g_configs)])
           ELSE GinAdvance(<<"mutex", g_i>>)
    /\ UNCHANGED <<fs, g_args, configs_folder, search_paths, gin_search_paths,
                   g_configs, g_overrides, merge_calls>>
    /\ UNCHANGED <<seedVars, sanVars, devVars>>

\* The merge, started before the mutually exclusive folders are checked.
ParseConfigFilesAndBindings_early ==
    /\ g_pc \in {"mutex", "merge"}
    /\ merge_calls' = Append(merge_calls,
                             [configs |-> g_configs, bindings |-> g_overrides,
                              skip_unknown |-> g_args.skip_unknown])
    /\ g_pc' = "done" /\ g_i' = 0
    /\ g_log' = Append(g_log, <<"merge", 1>>)
    /\ UNCHANGED <<fs, g_args, configs_folder, search_paths, gin_search_paths,
                   g_configs, g_overrides, g_err, g_err_info>>
    /\ UNCHANGED <<seedVars, sanVars, devVars>>

\* lines 195-200: gin.parse_config_files_and_bindings(configs, bindings, skip_unknown)
ParseConfigFilesAndBindings ==
    /\ g_pc = "merge"
    /\ merge_calls' = Append(merge_calls,
                             [configs |-> g_configs, bindings |-> g_overrides,
                              skip_unknown |-> g_args.skip_unknown])
    /\ g_pc' = "done" /\ g_i' = 0
    /\ g_log' = Append(g_log, <<"merge", 1>>)
    /\ UNCHANGED <<fs, g_args, configs_folder, search_paths, gin_search_paths,
                   g_configs, g_overrides, g_err, g_err_info>>
    /\ UNCHANGED <<seedVars, sanVars, devVars>>

GinNext ==
    \/ ResolveConfigsFolder \/ FindConfig \/ SanitizeOverrides
    \/ CheckMandatory \/ CheckMutex \/ ParseConfigFilesAndBindings

\* ------------------------------------------------------------------
\* Cycles device selection
\* ------------------------------------------------------------------

\* Bound: most devices the machine has.
MaxDevices == 3

CYCLES_GPUTYPES_PREFERENCE == <<"OPTIX", "CUDA", "METAL", "HIP", "ONEAPI", "CPU">>

\* CYCLES_GPUTYPES_PREFERENCE.index
PreferenceIndex(t) ==
    CHOOSE i \in 1..Len(CYCLES_GPUTYPES_PREFERENCE) : CYCLES_GPUTYPES_PREFERENCE[i] = t

\* Insertion of x into a list sorted by key, after the elements of equal key.
RECURSIVE InsertByPreference(_, _)
InsertByPreference(x, sorted) ==
    IF sorted = <<>> THEN <<x>>
    ELSE IF PreferenceIndex(x) < PreferenceIndex(Head(sorted))
         THEN <<x>> \o sorted
         ELSE <<Head(sorted)>> \o InsertByPreference(x, Tail(sorted))

\* The list left as it is.
SortByPreference_unsorted(types) == types

\* sorted(types, key=CYCLES_GPUTYPES_PREFERENCE.index), line 263
RECURSIVE SortByPreference(_)
SortByPreference(types) ==
    IF types = <<>> THEN <<>>
    ELSE InsertByPreference(types[Len(types)],
                            SortByPreference(SubSeq(types, 1, Len(types) - 1)))

\* [d for d in prefs.devices if d.type == t], as positions in prefs.devices
RECURSIVE DevicesOfType(_, _)
DevicesOfType(ds, t) ==
    IF ds = <<>> THEN <<>>
    ELSE DevicesOfType(SubSeq(ds, 1, Len(ds) - 1), t)
         \o (IF ds[Len(ds)].type = t THEN <<Len(ds)>> ELSE <<>>)

NoneList == [some |-> FALSE, val |-> <<>>]

DevIdle ==
    /\ use_gpu = FALSE /\ engine = "CYCLES" /\ hw = <<>> /\ devices = <<>>
    /\ devices0 = <<>> /\ cycles_device = "CPU" /\ compute_device_type = "NONE"
    /\ compute_device_type0 = "NONE" /\ enumerated = 0 /\ d_pc = "idle"
    /\ d_types = <<>> /\ d_err = "" /\ d_ret = NoneList

DevInit ==
    /\ use_gpu \in BOOLEAN
    /\ engine \in {"CYCLES", "BLENDER_EEVEE"}
    /\ hw \in StringsUpTo([type : Range(CYCLES_GPUTYPES_PREFERENCE), use : BOOLEAN],
                          MaxDevices)
    \* cycles may list no device before a backend has been queried
    /\ devices \in {<<>>, hw}
    /\ devices0 = devices
    /\ cycles_device \in {"CPU", "GPU"}
    /\ compute_device_type \in {"NONE", "CUDA"}
    /\ compute_device_type0 = compute_device_type
    /\ enumerated = 0 /\ d_pc = "start" /\ d_types = <<>> /\ d_err = ""
    /\ d_ret = NoneList

\* The use_gpu=False branch with the backends queried all the same.
CpuOnlyByFlag_enumerates ==
    /\ d_pc = "start" /\ use_gpu = FALSE
    /\ cycles_device' = "CPU"
    /\ devices' = hw /\ enumerated' = enumerated + 1
    /\ d_ret' = NoneList /\ d_pc' = "returned"
    /\ UNCHANGED <<use_gpu, engine, hw, devices0, compute_device_type,
                   compute_device_type0, d_types, d_err>>
    /\ UNCHANGED <<seedVars, sanVars, ginVars>>

\* lines 246-249: use_gpu is False
CpuOnlyByFlag ==
    /\ d_pc = "start" /\ use_gpu = FALSE
    /\ cycles_device' = "CPU"
    /\ d_ret' = NoneList /\ d_pc' = "returned"
    /\ UNCHANGED <<use_gpu, engine, hw, devices, devices0, compute_device_type,
                   compute_device_type0, enumerated, d_types, d_err>>
    /\ UNCHANGED <<seedVars, sanVars, ginVars>>

\* lines 251-257: the engine assertion, device = 'GPU', and the query of every
\* backend, after which prefs.devices lists what the machine has
EnumerateDevices ==
    /\ d_pc = "start" /\ use_gpu = TRUE
    /\ IF engine # "CYCLES"
       THEN /\ d_pc' = "raised" /\ d_err' = "AssertionError"
            /\ UNCHANGED <<cycles_device, devices, enumerated>>
       ELSE /\ cycles_device' = "GPU"
            /\ devices' = hw /\ enumerated' = enumerated + 1
            /\ d_pc' = "enumerated" /\ UNCHANGED d_err
    /\ UNCHANGED <<use_gpu, engine, hw, devices0, compute_device_type,
                   compute_device_type0, d_types, d_ret>>
    /\ UNCHANGED <<seedVars, sanVars, ginVars>>

\* lines 259-283
SelectDevices ==
    /\ d_pc = "enumerated"
    /\ IF Len(devices) = 0
       THEN /\ d_pc' = "raised" /\ d_err' = "AssertionError"
            /\ UNCHANGED <<d_types, cycles_device, compute_device_type, devices, d_ret>>
       ELSE LET types == SortByPreference([i \in 1..Len(devices) |-> devices[i].type])
                use_device_type == types[1]
            IN  /\ d_types' = types
                /\ UNCHANGED d_err
                /\ IF use_device_type = "CPU"
                   THEN /\ cycles_device' = "CPU"
                        /\ d_ret' = NoneList /\ d_pc' = "returned"
                        /\ UNCHANGED <<compute_device_type, devices>>
                   ELSE /\ compute_device_type' = use_device_type
                        /\ devices' = [i \in 1..Len(devices) |->
                                         [type |-> devices[i].type,
                                          use  |-> devices[i].type = use_device_type]]
                        /\ d_ret' = [some |-> TRUE,
                                     val  |-> DevicesOfType(devices, use_device_type)]
                        /\ d_pc' = "returned"
                        /\ UNCHANGED cycles_device
    /\ UNCHANGED <<use_gpu, engine, hw, devices0, compute_device_type0, enumerated>>
    /\ UNCHANGED <<seedVars, sanVars, ginVars>>

DevNext == CpuOnlyByFlag \/ EnumerateDevices \/ SelectDevices

\* ------------------------------------------------------------------
\* Properties: seed resolution (SpecSeed)
\* ------------------------------------------------------------------

\* A base-16 literal: an optional sign, then one or more base-16 digits.
IsHexLiteral(s) ==
    \E k \in 0..1 :
      /\ Len(s) > k
      /\ (k = 1 => s[1] = "-")
      /\ \A i \in (k + 1)..Len(s) : s[i] \in HexDigits

\* The integer a base-16 literal denotes: its digits from the first nonzero
\* one on, negative when signed and not zero.
parse_hex(s) ==
    LET k  == IF s[1] = "-" THEN 1 ELSE 0
        nz == {i \in (k + 1)..Len(s) : s[i] # "0"}
        lo == IF nz = {} THEN Len(s) + 1 ELSE CHOOSE i \in nz : \A j \in nz : i <= j
    IN  [neg |-> k = 1 /\ nz # {},
         mag |-> [i \in 1..(Len(s) - lo + 1) |-> DigitValue(s[lo + i - 1])]]

\* An unsigned decimal numeral of two or more digits: its decimal and its
\* base-16 readings differ.
IsPlainDecimal(s) == Len(s) >= 2 /\ Range(s) \subseteq DecDigits /\ s[1] # "0"

\* C4: a supplied seed that is a base-16 literal resolves to its base-16 value
\* with reason 'parsed as hexadecimal', never to its decimal value; any other
\* supplied seed resolves to int_hash of it with reason 'hashed string to
\* integer'.  The result is a function of the seed string alone, so it is the
\* same for every task and every call.
C4_HexThenHash ==
    (seed.some /\ s_pc # "start") =>
        /\ IF IsHexLiteral(seed.val)
           THEN /\ scene_seed = parse_hex(seed.val)
                /\ reason = "parsed as hexadecimal"
           ELSE /\ scene_seed = int_hash(seed.val)
                /\ reason = "hashed string to integer"
        /\ IsPlainDecimal(seed.val) =>
               scene_seed # NatToInt(DecimalValue(seed.val))

\* The seed "11" has been resolved to 17, for a task list without Coarse.
C4_Witness ==
    /\ seed = Some(<<"1", "1">>) /\ task = Some({"render"})
    /\ s_pc = "done" /\ s_ret = NatToInt(17) /\ reason = "parsed as hexadecimal"

\* C7: with no seed and a task collection that lacks Coarse, resolution raises,
\* and apply_scene_seed publishes no constant and seeds no generator.
C7_SeedRequired ==
    (~seed.some /\ task.some /\ "coarse" \notin task.val /\ s_pc # "start") =>
        /\ s_pc = "raised" /\ s_err = "ValueError"
        /\ gin_constants = <<>> /\ random_seeds = <<>> /\ np_seeds = <<>>

\* No seed, tasks {render}: the call has raised.
C7_Witness ==
    /\ ~seed.some /\ task = Some({"render"})
    /\ s_pc = "raised" /\ s_err = "ValueError"

\* parse_seed returns for this call: a seed is given, or a random one may be drawn.
ParseSeedReturns == seed.some \/ ~task.some \/ "coarse" \in task.val

\* C8: whenever parse_seed returns v, apply_scene_seed completes with
\* OVERALL_SEED, random's seed and numpy's seed each written once with v, and
\* returns v; it never ends with some of the three written and others not.
C8_AllSeededOnce ==
    (ParseSeedReturns /\ s_pc \in {"done", "raised"}) =>
        /\ s_pc = "done"
        /\ gin_constants = << <<"OVERALL_SEED", scene_seed>> >>
        /\ random_seeds = <<scene_seed>>
        /\ np_seeds = <<scene_seed>>
        /\ s_ret = scene_seed

\* ------------------------------------------------------------------
\* Properties: override sanitization (SpecSanitize)
\* ------------------------------------------------------------------

\* The result the claim describes for an override: the split is at the first '='.
SanitizedAtFirstEquals(o) ==
    IF ~Contains(o, "=") \/ (\E c \in QuoteChars : Contains(o, c))
    THEN o
    ELSE LET i == CHOOSE j \in 1..Len(o) : o[j] = "=" /\ \A m \in 1..(j - 1) : o[m] # "="
             k == SubSeq(o, 1, i - 1)
             v == SubSeq(o, i + 1, Len(o))
         IN  IF ~LiteralEvalOk(v) /\ ~Contains(v, "@")
             THEN k \o <<"=", "\"">> \o v \o <<"\"">>
             ELSE o

\* C3: sanitize_override returns for every override; without '=' or with a
\* quote or bracket it returns the override itself, otherwise it splits at the
\* first '=' into k and v and returns k="v" exactly when v is no literal and
\* holds no '@'.
C3_SanitizeTotal ==
    o_pc # "start" =>
        /\ o_pc = "returned" /\ ~o_out.raised
        /\ o_out.val = SanitizedAtFirstEquals(o_in)

\* ------------------------------------------------------------------
\* Properties: config resolution (SpecGin)
\* ------------------------------------------------------------------

RequestedNames == <<BaseName>> \o g_args.configs

\* The .gin files below search root k whose stem is that of name p.
RootMatches(k, p) ==
    {f \in fs : /\ IsPrefix(Resolve(search_paths[k]), f.dir)
                /\ f.name[Len(f.name)] = "gin" /\ Len(f.name) >= 2
                /\ Stem(f.name) = Stem(p)}

Logged(step) == \E j \in 1..Len(g_log) : g_log[j] = step

\* The stems of the entries directly inside constraint folder X, as resolved.
FolderStems(X) ==
    {Stem(n) : n \in IterDir(resolve_folder_maybe_relative(X, repo_root).path)}

ResolvedStems == {Stem(g_configs[i].name) : i \in 1..Len(g_configs)}

\* C1: a mandatory folder's check passes only if some resolved config has the
\* stem of an entry directly inside the folder; with none, resolution fails
\* before anything is merged.
C1_MandatoryEnforced ==
    /\ \A k \in 1..Len(g_args.mandatory_folders) :
          Logged(<<"mandatory", k>>) =>
              FolderStems(g_args.mandatory_folders[k]) \cap ResolvedStems # {}
    /\ (g_pc = "raised" /\ g_err_info.what = "mandatory") =>
          /\ FolderStems(g_args.mandatory_folders[g_i]) \cap ResolvedStems = {}
          /\ merge_calls = <<>>

\* C2: the check of a mutually exclusive folder raises exactly when the stems
\* directly inside it and the stems of the resolved configs share more than
\* one element; with none or one shared stem the check passes.
C2_MutexExactlyWhenTwo ==
    /\ \A k \in 1..Len(g_args.mutually_exclusive_folders) :
          Logged(<<"mutex", k>>) =>
              Cardinality(FolderStems(g_args.mutually_exclusive_folders[k])
                          \cap ResolvedStems) <= 1
    /\ (g_pc = "raised" /\ g_err_info.what = "mutex") =>
          /\ g_err = "ValueError"
          /\ Cardinality(FolderStems(g_args.mutually_exclusive_folders[g_i])
                         \cap ResolvedStems) > 1
    /\ (g_pc = "raised" /\ g_err_info.what = "folder") =>
          ~Exists(g_err_info.paths[1]) /\ ~Exists(g_err_info.paths[2])

\* desert and forest are both resolved and both lie in the checked folder: the
\* check has raised.
C2_Witness ==
    /\ g_pc = "raised" /\ g_err_info.what = "mutex"
    /\ g_err_info.stems = {<<"desert">>, <<"forest">>}

\* A folder with exactly one shared stem has passed its check.
C2_WitnessPass ==
    \E k \in 1..Len(g_args.mutually_exclusive_folders) :
        /\ Logged(<<"mutex", k>>)
        /\ Cardinality(FolderStems(g_args.mutually_exclusive_folders[k])
                       \cap ResolvedStems) = 1

\* C5: discovery yields one file per requested name, in order, base first; each
\* is a .gin file with the name's stem from the first search root that has
\* such a file; a name with no such file in any root raises an error that
\* lists every root searched.
C5_FirstRootWins ==
    /\ Len(g_configs) <= Len(RequestedNames)
    /\ (Logged(<<"sanitize", 1>>) \/ g_pc = "sanitize") =>
           Len(g_configs) = Len(RequestedNames)
    /\ \A i \in 1..Len(g_configs) :
          \E k \in 1..Len(search_paths) :
             /\ g_configs[i] \in RootMatches(k, RequestedNames[i])
             /\ \A m \in 1..(k - 1) : RootMatches(m, RequestedNames[i]) = {}
    /\ g_configs # <<>> => Stem(g_configs[1].name) = <<"base">>
    /\ (g_pc = "raised" /\ g_err_info.what = "config") =>
          /\ g_err = "FileNotFoundError"
          /\ g_err_info.paths = search_paths
          /\ Len(search_paths) = 3
          /\ \A k \in 1..Len(search_paths) : RootMatches(k, RequestedNames[g_i]) = {}

\* local.gin exists only below the last root and has been found there.
C5_Witness ==
    /\ g_pc = "done" /\ Len(g_configs) = 3
    /\ g_configs[3] = File(<<"work">>, <<"local", "gin">>)
    /\ g_configs[2].dir = <<"repo", "configs", "scene_types">>
    /\ File(<<"repo", "extra">>, <<"desert", "gin">>) \in fs

\* C9: the merge is called at most once, and only after discovery of every
\* name, sanitization and every folder check have completed; a call that
\* raises never merges.  The merge receives the resolved files in discovery
\* order, the sanitized overrides in their order, and skip_unknown as given.
C9_MergeLastAndOnce ==
    /\ Len(merge_calls) <= 1
    /\ g_err # "" => merge_calls = <<>>
    /\ merge_calls # <<>> =>
          /\ g_err = ""
          /\ g_log[Len(g_log)] = <<"merge", 1>>
          /\ \A i \in 1..Len(RequestedNames) : Logged(<<"find", i>>)
          /\ Logged(<<"sanitize", 1>>)
          /\ \A k \in 1..Len(g_args.mandatory_folders) : Logged(<<"mandatory", k>>)
          /\ \A k \in 1..Len(g_args.mutually_exclusive_folders) : Logged(<<"mutex", k>>)
          /\ merge_calls[1].configs = g_configs
          /\ Len(g_configs) = Len(RequestedNames)
          /\ \A i \in 1..Len(g_configs) :
                Stem(g_configs[i].name) = Stem(RequestedNames[i])
          /\ Len(merge_calls[1].bindings) = Len(g_args.overrides)
          /\ \A i \in 1..Len(g_args.overrides) :
                /\ ~sanitize_override(g_args.overrides[i]).raised
                /\ merge_calls[1].bindings[i] = sanitize_override(g_args.overrides[i]).val
          /\ merge_calls[1].skip_unknown = g_args.skip_unknown

\* A call with two requested configs, three overrides and folder checks of
\* both kinds has merged.
C9_Witness ==
    /\ Len(merge_calls) = 1 /\ g_pc = "done"
    /\ Len(merge_calls[1].configs) = 3
    /\ Len(merge_calls[1].bindings) = 3
    /\ merge_calls[1].bindings[2] = <<"a", "=", "\"", "a", "\"">>
    /\ Len(g_args.mandatory_folders) = 2
    /\ Len(g_args.mutually_exclusive_folders) = 2
    /\ g_args.skip_unknown

\* ------------------------------------------------------------------
\* Properties: Cycles device selection (SpecDevices)
\* ------------------------------------------------------------------

\* C6: with use_gpu true and a device present, the chosen type is the present
\* type of lowest index in CYCLES_GPUTYPES_PREFERENCE; if it is not CPU, then
\* on return exactly the devices of that type are enabled, the compute device
\* type is the chosen type and the devices of that type are returned in
\* catalog order.
C6_TopRankedTypeEnabled ==
    (use_gpu /\ d_pc = "returned") =>
        /\ Len(devices) > 0
        /\ \E i \in 1..Len(devices) : devices[i].type = d_types[1]
        /\ \A i \in 1..Len(devices) :
              PreferenceIndex(d_types[1]) <= PreferenceIndex(devices[i].type)
        /\ d_types[1] # "CPU" =>
              /\ \A i \in 1..Len(devices) :
                    devices[i].use <=> (devices[i].type = d_types[1])
              /\ compute_device_type = d_types[1]
              /\ d_ret.some
              /\ \A j \in 1..Len(d_ret.val) :
                    /\ d_ret.val[j] \in 1..Len(devices)
                    /\ devices[d_ret.val[j]].type = d_types[1]
                    /\ j > 1 => d_ret.val[j - 1] < d_ret.val[j]
              /\ \A i \in 1..Len(devices) :
                    devices[i].type = d_types[1] =>
                        \E j \in 1..Len(d_ret.val) : d_ret.val[j] = i

\* A CUDA device listed between two OPTIX ones, the OPTIX ones disabled at
\* first: OPTIX is chosen and the first and third devices are returned.
C6_Witness ==
    /\ use_gpu /\ d_pc = "returned"
    /\ hw = <<[type |-> "OPTIX", use |-> FALSE], [type |-> "CUDA", use |-> TRUE],
              [type |-> "OPTIX", use |-> FALSE]>>
    /\ compute_device_type0 = "CUDA"
    /\ compute_device_type = "OPTIX"
    /\ d_ret = [some |-> TRUE, val |-> <<1, 3>>]

\* C10: a call that ends CPU-only (use_gpu false, or the top-ranked present
\* type is CPU) leaves the render device 'CPU', returns nothing, and changes
\* neither a device's enabled flag nor the compute device type; with use_gpu
\* false the backends are not queried.
C10_CpuOnlyFrame ==
    (d_pc = "returned" /\ (~use_gpu \/ d_types[1] = "CPU")) =>
        /\ cycles_device = "CPU"
        /\ ~d_ret.some
        /\ compute_device_type = compute_device_type0
        /\ \A i \in 1..Len(devices) : devices[i].use = hw[i].use
        /\ ~use_gpu => (enumerated = 0 /\ devices = devices0)

\* use_gpu true, only CPU devices, one of them enabled, render device GPU and
\* compute device type CUDA before the call: the call has degraded to CPU.
C10_Witness ==
    /\ use_gpu /\ d_pc = "returned" /\ d_types = <<"CPU", "CPU">>
    /\ hw[1].use /\ ~hw[2].use
    /\ compute_device_type0 = "CUDA" /\ cycles_device = "CPU"

\* ------------------------------------------------------------------
\* Specifications: one per entry point, the others at rest
\* ------------------------------------------------------------------

SeedEntry == LET init == SeedInit /\ SanIdle /\ GinIdle /\ DevIdle IN init

SanitizeEntry == LET init == SeedIdle /\ SanInit /\ GinIdle /\ DevIdle IN init

GinEntry == LET init == SeedIdle /\ SanIdle /\ GinInit /\ DevIdle IN init

DevicesEntry == LET init == SeedIdle /\ SanIdle /\ GinIdle /\ DevInit IN init

\* apply_scene_seed is called
SpecSeed == SeedEntry /\ [][SeedNext]_vars

\* sanitize_override is called
SpecSanitize == SanitizeEntry /\ [][SanNext]_vars

\* apply_gin_configs is called
SpecGin == GinEntry /\ [][GinNext]_vars

\* configure_cycles_devices is called
SpecDevices == DevicesEntry /\ [][DevNext]_vars

\* Any one of the entry points is called.
Init == SeedEntry \/ SanitizeEntry \/ GinEntry \/ DevicesEntry

Next == SeedNext \/ SanNext \/ GinNext \/ DevNext

Spec == Init /\ [][Next]_vars

====
